---- MODULE Spec2Model ----
(***************************************************************************)
(* Model of src/romanian_preprocessor.py: the Romanian character mapper    *)
(* (preprocess_romanian), the punctuation normaliser (punc_norm_romanian), *)
(* the vocabulary coverage check (check_vocab_coverage) and the metadata   *)
(* CSV rewriter (preprocess_metadata_csv).                                 *)
(*                                                                         *)
(* A character is its Unicode code point (a natural number); a string is a *)
(* sequence of code points.  Code points are written in decimal, with the  *)
(* character they stand for in a comment.                                  *)
(***************************************************************************)
EXTENDS Integers, Sequences, FiniteSets, TLC

\* Longest input text of preprocess_romanian drawn by InitMap.
MaxLen == 2
\* Longest input text of punc_norm_romanian drawn by InitPunc.
MaxPuncLen == 5
\* Longest text drawn for check_vocab_coverage by InitVocab.
MaxVocabLen == 3
\* Largest number of records in the input file drawn by InitCsv.
MaxRows == 2
\* Number of times a text function is applied: to the input, then to its own result.
MaxCalls == 2

VARIABLES
    text,       \* the argument `text` of the current call
    lowercase,  \* the argument `lowercase`
    mode,       \* the argument `mode`
    pc,         \* position inside the function being run
    result,     \* the local `text` as rewritten so far; the return value when done
    calls,      \* number of completed calls before the current one
    prev,       \* result of the previous call (input of the current one)
    vocab,      \* check_vocab_coverage: the keys of the argument `vocab`
    coverage,   \* check_vocab_coverage: the dict returned
    in_rows,    \* preprocess_metadata_csv: the records of the input file, as the reader yields them
    out_rows,   \* preprocess_metadata_csv: the records handed to the writer and written
    fin,        \* preprocess_metadata_csv: the input handle: "unopened", "open" or "closed"
    fout,       \* preprocess_metadata_csv: the output handle: "unopened", "open" or "closed"
    row,        \* preprocess_metadata_csv: the loop variable `row`
    idx,        \* preprocess_metadata_csv: number of records the reader has yielded
    processed_count,
    exc         \* preprocess_metadata_csv: the exception in flight, "none" when there is none

textVars == <<text, lowercase, mode, pc, result, calls, prev>>
vocabVars == <<vocab, coverage>>
csvVars == <<in_rows, out_rows, fin, fout, row, idx, processed_count, exc>>
vars == <<textVars, vocabVars, csvVars>>

\* The values of the variables of the functions a specification does not run.
NoCoverage == [covered |-> <<>>, missing |-> <<>>, coverage_pct |-> <<0, 1>>, total_unique |-> 0]
IdleVocab == vocab = {} /\ coverage = NoCoverage
IdleCsv ==
    /\ in_rows = <<>> /\ out_rows = <<>> /\ fin = "unopened" /\ fout = "unopened"
    /\ row = <<>> /\ idx = 0 /\ processed_count = 0 /\ exc = "none"
IdleText ==
    /\ text = <<>> /\ result = <<>> /\ calls = 0 /\ prev = <<>>

(***************************************************************************)
(* Strings.                                                                *)
(***************************************************************************)
BoundedStr(alphabet, n) == UNION {[1..k -> alphabet] : k \in 0..n}

Range(s) == {s[i] : i \in 1..Len(s)}

(***************************************************************************)
(* The two character maps.                                                 *)
(***************************************************************************)
\* PHONEME_MAP with the vowels collapsed as ASCII_MAP collapses them
PHONEME_MAP_VowelsCollapsed ==
    (  537 :> <<115, 104>> @@ 536 :> <<115, 104>>
    @@ 351 :> <<115, 104>> @@ 350 :> <<115, 104>>
    @@ 539 :> <<116, 115>> @@ 538 :> <<116, 115>>
    @@ 355 :> <<116, 115>> @@ 354 :> <<116, 115>>
    @@ 259 :> <<97>>  @@ 258 :> <<97>>
    @@ 226 :> <<97>>  @@ 194 :> <<97>>
    @@ 238 :> <<105>> @@ 206 :> <<105>> )

PHONEME_MAP ==
    (  537 :> <<115, 104>>    \* U+0219 s-comma        -> "sh"
    @@ 536 :> <<115, 104>>    \* U+0218 S-comma        -> "sh"
    @@ 351 :> <<115, 104>>    \* U+015F s-cedilla      -> "sh"
    @@ 350 :> <<115, 104>>    \* U+015E S-cedilla      -> "sh"
    @@ 539 :> <<116, 115>>    \* U+021B t-comma        -> "ts"
    @@ 538 :> <<116, 115>>    \* U+021A T-comma        -> "ts"
    @@ 355 :> <<116, 115>>    \* U+0163 t-cedilla      -> "ts"
    @@ 354 :> <<116, 115>>    \* U+0162 T-cedilla      -> "ts"
    @@ 258 :> <<259>>         \* U+0102 A-breve        -> U+0103 a-breve
    @@ 194 :> <<226>>         \* U+00C2 A-circumflex   -> U+00E2 a-circumflex
    @@ 206 :> <<238>> )       \* U+00CE I-circumflex   -> U+00EE i-circumflex

ASCII_MAP ==
    (  537 :> <<115, 104>> @@ 536 :> <<115, 104>>
    @@ 351 :> <<115, 104>> @@ 350 :> <<115, 104>>
    @@ 539 :> <<116, 115>> @@ 538 :> <<116, 115>>
    @@ 355 :> <<116, 115>> @@ 354 :> <<116, 115>>
    @@ 259 :> <<97>>  @@ 258 :> <<97>>     \* a-breve, A-breve           -> "a"
    @@ 226 :> <<97>>  @@ 194 :> <<97>>     \* a-circumflex, A-circumflex -> "a"
    @@ 238 :> <<105>> @@ 206 :> <<105>> )  \* i-circumflex, I-circumflex -> "i"

Modes == {"phoneme", "ascii"}

\* line 108: any mode other than "phoneme" selects ASCII_MAP
SelectMap(m) == IF m = "phoneme" THEN PHONEME_MAP ELSE ASCII_MAP

\* MapChar with the else branch of line 115 lost: an unmapped character is dropped
MapChar_DropsUnmapped(ch, char_map) ==
    IF ch \in DOMAIN char_map THEN char_map[ch] ELSE <<>>

\* lines 113-116: one iteration of the loop, the pieces appended for ch
MapChar(ch, char_map) ==
    IF ch \in DOMAIN char_map THEN char_map[ch] ELSE <<ch>>

\* lines 111-117: the loop over the text and the join of the pieces
RECURSIVE MapChars(_, _)
MapChars(s, char_map) ==
    IF s = <<>> THEN <<>>
    ELSE MapChar(Head(s), char_map) \o MapChars(Tail(s), char_map)

(***************************************************************************)
(* str.lower(), on the characters the model draws.  Every cased character  *)
(* of the model lowercases to a single character, so lower() acts          *)
(* character by character.                                                 *)
(***************************************************************************)
LowerTable ==
    (  65 :> 97   @@ 73 :> 105  @@ 83 :> 115  @@ 84 :> 116  \* A I S T
    @@ 194 :> 226 @@ 206 :> 238 @@ 258 :> 259               \* A-circ I-circ A-breve
    @@ 300 :> 301                                           \* I-breve
    @@ 350 :> 351 @@ 354 :> 355 @@ 536 :> 537 @@ 538 :> 539 )

LowerChar(ch) == IF ch \in DOMAIN LowerTable THEN LowerTable[ch] ELSE ch

StrLower(s) == [i \in 1..Len(s) |-> LowerChar(s[i])]

(***************************************************************************)
(* unicodedata.normalize('NFC', s): canonical decomposition, canonical     *)
(* ordering of the combining marks, canonical composition.  The tables     *)
(* hold the characters of the model: the four combining marks below, the   *)
(* fourteen precomposed letters that are keys of the maps, and i-breve     *)
(* (composed from the "i" that ASCII_MAP produces and a following breve).  *)
(***************************************************************************)
\* canonical combining class of the combining marks; every other character is a starter (0)
CombiningClass ==
    (  770 :> 230     \* U+0302 combining circumflex accent
    @@ 774 :> 230     \* U+0306 combining breve
    @@ 806 :> 220     \* U+0326 combining comma below
    @@ 807 :> 202 )   \* U+0327 combining cedilla

Ccc(ch) == IF ch \in DOMAIN CombiningClass THEN CombiningClass[ch] ELSE 0

\* primary composites: <<starter, mark>> :> precomposed letter
Composites ==
    (  <<115, 806>> :> 537 @@ <<83, 806>> :> 536
    @@ <<115, 807>> :> 351 @@ <<83, 807>> :> 350
    @@ <<116, 806>> :> 539 @@ <<84, 806>> :> 538
    @@ <<116, 807>> :> 355 @@ <<84, 807>> :> 354
    @@ <<97, 774>>  :> 259 @@ <<65, 774>> :> 258
    @@ <<97, 770>>  :> 226 @@ <<65, 770>> :> 194
    @@ <<105, 770>> :> 238 @@ <<73, 770>> :> 206
    @@ <<105, 774>> :> 301 @@ <<73, 774>> :> 300 )   \* i-breve, I-breve

DecomposeChar(ch) ==
    IF \E p \in DOMAIN Composites : Composites[p] = ch
    THEN CHOOSE p \in DOMAIN Composites : Composites[p] = ch
    ELSE <<ch>>

RECURSIVE Decompose(_)
Decompose(s) ==
    IF s = <<>> THEN <<>> ELSE DecomposeChar(Head(s)) \o Decompose(Tail(s))

\* canonical ordering: a mark moves left past a neighbouring mark of a higher class
RECURSIVE Reorder(_)
Reorder(s) ==
    IF \E i \in 1..(Len(s) - 1) : Ccc(s[i + 1]) # 0 /\ Ccc(s[i]) > Ccc(s[i + 1])
    THEN LET i == CHOOSE j \in 1..(Len(s) - 1) :
                      Ccc(s[j + 1]) # 0 /\ Ccc(s[j]) > Ccc(s[j + 1])
         IN  Reorder([s EXCEPT ![i] = s[i + 1], ![i + 1] = s[i]])
    ELSE s

\* canonical composition: done is the composed prefix, st the index in done of the
\* last starter (0: none), lastCcc the class of the last character kept after it
RECURSIVE Compose(_, _, _, _)
Compose(done, st, lastCcc, rest) ==
    IF rest = <<>> THEN done
    ELSE LET ch == Head(rest)
             cc == Ccc(ch)
             blocked == lastCcc # 0 /\ lastCcc >= cc
             adjacent == st = Len(done)
             pair == IF st = 0 THEN <<0, 0>> ELSE <<done[st], ch>>
             combines == /\ st # 0
                         /\ pair \in DOMAIN Composites
                         /\ IF cc = 0 THEN adjacent ELSE ~blocked
         IN  IF combines
             THEN Compose([done EXCEPT ![st] = Composites[pair]], st, lastCcc, Tail(rest))
             ELSE IF cc = 0
             THEN Compose(Append(done, ch), Len(done) + 1, 0, Tail(rest))
             ELSE Compose(Append(done, ch), st, cc, Tail(rest))

NFC(s) == Compose(<<>>, 0, 0, Reorder(Decompose(s)))

(***************************************************************************)
(* preprocess_romanian as a whole.                                         *)
(***************************************************************************)
LowerStep(s, lc) == IF lc THEN StrLower(s) ELSE s

preprocess_romanian(s, lc, m) ==
    IF s = <<>> THEN s
    ELSE NFC(LowerStep(MapChars(s, SelectMap(m)), lc))

\* The characters input texts are drawn from: the keys of the maps, the base
\* letters and the combining marks they decompose to (s S a A, comma below, breve).
MapAlphabet ==
    (DOMAIN ASCII_MAP) \cup {115, 83, 97, 65, 806, 774}

\* line 95, the docstring's example input: S-comma "tiin" t-comma a-breve " "
\* s-comma "i " i-circumflex "n" t-comma "elepciune."
Example ==
    <<536, 116, 105, 105, 110, 539, 259, 32, 537, 105, 32,
      238, 110, 539, 101, 108, 101, 112, 99, 105, 117, 110, 101, 46>>

InitMap ==
    /\ text \in BoundedStr(MapAlphabet, MaxLen) \cup {Example}
    /\ lowercase \in BOOLEAN
    /\ mode \in Modes
    /\ pc = "start"
    /\ result = text
    /\ calls = 0
    /\ prev = <<>>
    /\ IdleVocab
    /\ IdleCsv

\* lines 104-105
ReturnEmpty ==
    /\ pc = "start"
    /\ text = <<>>
    /\ result' = text
    /\ pc' = "done"
    /\ UNCHANGED <<text, lowercase, mode, calls, prev, vocabVars, csvVars>>

\* lines 107-117
ApplyMap ==
    /\ pc = "start"
    /\ text # <<>>
    /\ result' = MapChars(text, SelectMap(mode))
    /\ pc' = "mapped"
    /\ UNCHANGED <<text, lowercase, mode, calls, prev, vocabVars, csvVars>>

\* lines 119-121
Lowercase ==
    /\ pc = "mapped"
    /\ result' = LowerStep(result, lowercase)
    /\ pc' = "lowered"
    /\ UNCHANGED <<text, lowercase, mode, calls, prev, vocabVars, csvVars>>

\* lines 123-127
Normalize ==
    /\ pc = "lowered"
    /\ result' = NFC(result)
    /\ pc' = "done"
    /\ UNCHANGED <<text, lowercase, mode, calls, prev, vocabVars, csvVars>>

\* the caller feeds the result back in, with the same mode and lowercase flag
CallAgain ==
    /\ pc = "done"
    /\ calls + 1 < MaxCalls
    /\ text' = result
    /\ prev' = result
    /\ calls' = calls + 1
    /\ pc' = "start"
    /\ UNCHANGED <<lowercase, mode, result, vocabVars, csvVars>>

NextMap == ReturnEmpty \/ ApplyMap \/ Lowercase \/ Normalize \/ CallAgain

SpecMap == InitMap /\ [][NextMap]_vars

(***************************************************************************)
(* Properties of preprocess_romanian (checked under SpecMap).              *)
(***************************************************************************)
\* Keys of the map m selects whose replacement is a different string.
ChangedKeys(m) == {k \in DOMAIN SelectMap(m) : SelectMap(m)[k] # <<k>>}

\* Length of the piece that replaces ch under char_map.
PieceLen(ch, char_map) == IF ch \in DOMAIN char_map THEN Len(char_map[ch]) ELSE 1

\* Position in the mapped text of the piece that replaces src[i].
RECURSIVE PiecePos(_, _, _)
PiecePos(src, i, char_map) ==
    IF i = 1 THEN 1
    ELSE PiecePos(src, i - 1, char_map) + PieceLen(src[i - 1], char_map)

\* Every character of src that is no key of char_map stands unchanged in out, at the
\* position the pieces before it leave for it.
NonKeysKept(src, out, char_map) ==
    \A i \in 1..Len(src) :
        src[i] \notin DOMAIN char_map =>
            LET p == PiecePos(src, i, char_map)
            IN  p <= Len(out) /\ out[p] = src[i]

\* C1: preprocess_romanian is idempotent: applied to its own result, with the same
\* mode and lowercase flag, it returns that result unchanged.
C1_Idempotent ==
    (pc = "done" /\ calls >= 1) => result = prev

\* C2 (as claimed): every character of the input that is no key of the selected map
\* stands unchanged, at the same relative position, in the output of
\* preprocess_romanian.
C2_NonKeysKeptInOutput ==
    pc = "done" => NonKeysKept(text, result, SelectMap(mode))

\* C2 (amended): every character of the input that is no key of the selected map
\* stands unchanged, at the same relative position, in the text the mapping loop
\* (lines 111-117) builds; the lowercase and NFC steps that follow may rewrite it.
C2_NonKeysKeptByMapLoop ==
    pc = "mapped" => NonKeysKept(text, result, SelectMap(mode))

\* C2 witness: the loop has run on a text whose first character is a key replaced
\* by two characters and whose second character is no key.
C2_Witness ==
    /\ pc = "mapped"
    /\ Len(text) = 2
    /\ text[1] \in DOMAIN SelectMap(mode)
    /\ Len(SelectMap(mode)[text[1]]) = 2
    /\ text[2] \notin DOMAIN SelectMap(mode)
    /\ result[3] = text[2]

C9_NoChangedKeyInOutput ==
    pc = "done" => Range(result) \cap ChangedKeys(mode) = {}

(***************************************************************************)
(* punc_norm_romanian.                                                     *)
(***************************************************************************)
\* The characters str.split() with no argument splits on (str.isspace): tab to CR,
\* FS to US, space, NEL, no-break space, and the Unicode space separators.
Whitespace ==
    (9..13) \cup (28..32) \cup {133, 160, 5760} \cup (8192..8202)
        \cup {8232, 8233, 8239, 8287, 12288}

\* text.split(): the maximal runs of non-whitespace characters, in order
RECURSIVE Split(_, _)
Split(s, word) ==
    IF s = <<>> THEN (IF word = <<>> THEN <<>> ELSE <<word>>)
    ELSE IF Head(s) \in Whitespace
         THEN (IF word = <<>> THEN <<>> ELSE <<word>>) \o Split(Tail(s), <<>>)
         ELSE Split(Tail(s), Append(word, Head(s)))

\* " ".join(words)
RECURSIVE JoinSpace(_)
JoinSpace(words) ==
    IF words = <<>> THEN <<>>
    ELSE IF Len(words) = 1 THEN words[1]
    ELSE words[1] \o <<32>> \o JoinSpace(Tail(words))

\* line 143
CollapseSpaces(s) == JoinSpace(Split(s, <<>>))

\* str.replace(old, new): the occurrences of old found scanning left to right,
\* none overlapping an earlier one, each replaced by new (old is never empty here)
RECURSIVE Replace(_, _, _)
Replace(s, old, new) ==
    IF Len(s) < Len(old) THEN s
    ELSE IF SubSeq(s, 1, Len(old)) = old
         THEN new \o Replace(SubSeq(s, Len(old) + 1, Len(s)), old, new)
         ELSE <<Head(s)>> \o Replace(Tail(s), old, new)

\* lines 146-161, in the order of the list
punc_to_replace ==
    << << <<46, 46, 46>>, <<44, 32>> >>,    \* "..."          -> ", "
       << <<8230>>,       <<44, 32>> >>,    \* U+2026 ellipsis -> ", "
       << <<58>>,         <<44>> >>,        \* ":"            -> ","
       << <<32, 45, 32>>, <<44, 32>> >>,    \* " - "          -> ", "
       << <<59>>,         <<44, 32>> >>,    \* ";"            -> ", "
       << <<8212>>,       <<45>> >>,        \* U+2014 em dash -> "-"
       << <<8211>>,       <<45>> >>,        \* U+2013 en dash -> "-"
       << <<32, 44>>,     <<44>> >>,        \* " ,"           -> ","
       << <<8220>>,       <<34>> >>,        \* U+201C         -> '"'
       << <<8221>>,       <<34>> >>,        \* U+201D         -> '"'
       << <<8216>>,       <<39>> >>,        \* U+2018         -> "'"
       << <<8217>>,       <<39>> >>,        \* U+2019         -> "'"
       << <<8222>>,       <<34>> >>,        \* U+201E         -> '"'
       << <<8223>>,       <<34>> >> >>      \* U+201F         -> '"'

\* lines 162-163: the replacements from the k-th on, each applied to the result of
\* the one before
RECURSIVE ReplaceFrom(_, _)
ReplaceFrom(s, k) ==
    IF k > Len(punc_to_replace) THEN s
    ELSE ReplaceFrom(Replace(s, punc_to_replace[k][1], punc_to_replace[k][2]), k + 1)

ReplacePunctuation(s) == ReplaceFrom(s, 1)

\* text.rstrip(" "): only the space character is stripped
RECURSIVE RStripSpace(_)
RStripSpace(s) ==
    IF s # <<>> /\ s[Len(s)] = 32 THEN RStripSpace(SubSeq(s, 1, Len(s) - 1)) ELSE s

\* line 167: . ! ? - ,
sentence_enders == {46, 33, 63, 45, 44}

EndsWithEnder(s) == s # <<>> /\ s[Len(s)] \in sentence_enders

\* AddFullStop with lines 168-169 lost: the text is only stripped
AddFullStop_NeverAppends(s) == RStripSpace(s)

\* lines 166-169
AddFullStop(s) ==
    LET stripped == RStripSpace(s)
    IN  IF EndsWithEnder(stripped) THEN stripped ELSE Append(stripped, 46)

\* line 140: "you need to add some text for me to talk."
Fallback ==
    <<121, 111, 117, 32, 110, 101, 101, 100, 32, 116, 111, 32, 97, 100, 100, 32,
      115, 111, 109, 101, 32, 116, 101, 120, 116, 32, 102, 111, 114, 32, 109, 101,
      32, 116, 111, 32, 116, 97, 108, 107, 46>>

punc_norm_romanian(s) ==
    IF Len(s) = 0 THEN Fallback
    ELSE AddFullStop(ReplacePunctuation(CollapseSpaces(s)))

\* The characters input texts are drawn from: a letter, space, tab, and the
\* punctuation "." "," ";" "-" and the em dash.
PuncAlphabet == {97, 32, 9, 46, 44, 59, 45, 8212}

InitPunc ==
    /\ text \in BoundedStr(PuncAlphabet, MaxPuncLen)
    /\ lowercase = TRUE
    /\ mode = "phoneme"
    /\ pc = "start"
    /\ result = text
    /\ calls = 0
    /\ prev = <<>>
    /\ IdleVocab
    /\ IdleCsv

\* lines 139-140
ReturnFallback ==
    /\ pc = "start"
    /\ Len(text) = 0
    /\ result' = Fallback
    /\ pc' = "done"
    /\ UNCHANGED <<text, lowercase, mode, calls, prev, vocabVars, csvVars>>

\* lines 142-143
Collapse ==
    /\ pc = "start"
    /\ Len(text) # 0
    /\ result' = CollapseSpaces(text)
    /\ pc' = "collapsed"
    /\ UNCHANGED <<text, lowercase, mode, calls, prev, vocabVars, csvVars>>

\* lines 145-163
Substitute ==
    /\ pc = "collapsed"
    /\ result' = ReplacePunctuation(result)
    /\ pc' = "replaced"
    /\ UNCHANGED <<text, lowercase, mode, calls, prev, vocabVars, csvVars>>

\* lines 165-171
Terminate ==
    /\ pc = "replaced"
    /\ result' = AddFullStop(result)
    /\ pc' = "done"
    /\ UNCHANGED <<text, lowercase, mode, calls, prev, vocabVars, csvVars>>

NextPunc == ReturnFallback \/ Collapse \/ Substitute \/ Terminate \/ CallAgain

SpecPunc == InitPunc /\ [][NextPunc]_vars

(***************************************************************************)
(* Properties of punc_norm_romanian (checked under SpecPunc).              *)
(***************************************************************************)
\* C4: for every input, the empty string and whitespace-only or punctuation-only
\* strings included, the result of punc_norm_romanian ends with one of . ! ? - ,
C4_EndsWithSentenceEnder ==
    pc = "done" => EndsWithEnder(result)

\* C4 witness: a text made only of whitespace has been normalised to ".".
C4_Witness ==
    /\ pc = "done"
    /\ calls = 0
    /\ text # <<>>
    /\ Range(text) \subseteq Whitespace
    /\ result = <<46>>

\* C5: punc_norm_romanian is idempotent on non-empty strings: applied to its own
\* result it returns that result unchanged.
C5_PuncIdempotent ==
    (pc = "done" /\ calls >= 1 /\ text # <<>>) => result = prev

\* C10: the result of punc_norm_romanian on a non-empty string has no two adjacent
\* spaces, no leading space and no trailing space.
C10_SingleSpaced ==
    (pc = "done" /\ text # <<>>) =>
        /\ result[1] # 32
        /\ result[Len(result)] # 32
        /\ \A i \in 1..(Len(result) - 1) : ~(result[i] = 32 /\ result[i + 1] = 32)

(***************************************************************************)
(* check_vocab_coverage.  The vocabulary is a dict from token to id; the   *)
(* function only tests membership of its keys, so the model keeps the set  *)
(* of keys (each a string).                                                *)
(***************************************************************************)
\* sorted(S): the elements of a set of characters in ascending order
RECURSIVE Sorted(_)
Sorted(S) ==
    IF S = {} THEN <<>>
    ELSE LET m == CHOOSE x \in S : \A y \in S : x <= y
         IN  <<m>> \o Sorted(S \ {m})

\* UniqueChars with the replace(' ', '') of line 213 lost
UniqueChars_KeepsSpace(s) == Range(s)

\* line 213: set(text.replace(' ', ''))
UniqueChars(s) == Range(Replace(s, <<32>>, <<>>))

\* lines 213-222
check_vocab_coverage(s, v) ==
    LET unique_chars == UniqueChars(s)
        covered == {ch \in unique_chars : <<ch>> \in v}
        missing == unique_chars \ covered
        n == Cardinality(unique_chars)
    IN  [ covered      |-> Sorted(covered),
          missing      |-> Sorted(missing),
          \* a fraction <<numerator, denominator>>
          coverage_pct |-> <<Cardinality(covered) * 100, IF n > 1 THEN n ELSE 1>>,
          total_unique |-> n ]

\* Texts over "a" "b", space and tab; vocabularies over the tokens "a", "ab", tab
\* and space.
VocabAlphabet == {97, 98, 32, 9}
VocabTokens == {<<97>>, <<97, 98>>, <<9>>, <<32>>}

InitVocab ==
    /\ text \in BoundedStr(VocabAlphabet, MaxVocabLen)
    /\ vocab \in SUBSET VocabTokens
    /\ coverage = NoCoverage
    /\ pc = "start"
    /\ lowercase = TRUE /\ mode = "phoneme"
    /\ result = <<>> /\ calls = 0 /\ prev = <<>>
    /\ IdleCsv

\* lines 213-222
CheckCoverage ==
    /\ pc = "start"
    /\ coverage' = check_vocab_coverage(text, vocab)
    /\ pc' = "done"
    /\ UNCHANGED <<text, lowercase, mode, result, calls, prev, vocab, csvVars>>

NextVocab == CheckCoverage

SpecVocab == InitVocab /\ [][NextVocab]_vars

(***************************************************************************)
(* Properties of check_vocab_coverage (checked under SpecVocab).           *)
(***************************************************************************)
\* The returned covered and missing lists are disjoint, their union is the set
\* expected, every covered character is a vocabulary entry, no missing character is,
\* and total_unique is the size of covered plus the size of missing.
CoverageSplits(expected) ==
    LET c == Range(coverage.covered)
        m == Range(coverage.missing)
    IN  /\ c \cap m = {}
        /\ c \cup m = expected
        /\ \A ch \in c : <<ch>> \in vocab
        /\ \A ch \in m : <<ch>> \notin vocab
        /\ Cardinality(c) = Len(coverage.covered)
        /\ Cardinality(m) = Len(coverage.missing)
        /\ coverage.total_unique = Len(coverage.covered) + Len(coverage.missing)

\* C8 (as claimed): covered and missing split the distinct characters of the text
\* with whitespace excluded.
C8_SplitsNonWhitespace ==
    pc = "done" => CoverageSplits(Range(text) \ Whitespace)

\* C8 (amended): covered and missing split the distinct characters of the text with
\* the space character U+0020 excluded; any other whitespace character (a tab, a
\* newline) is counted like a letter.
C8_SplitsNonSpace ==
    pc = "done" => CoverageSplits(Range(text) \ {32})

\* C8 witness: the check has run on a text holding a space, a tab and a letter, with
\* some character covered and some missing.
C8_Witness ==
    /\ pc = "done"
    /\ {32, 9, 97} \subseteq Range(text)
    /\ coverage.covered # <<>>
    /\ coverage.missing # <<>>

(***************************************************************************)
(* preprocess_metadata_csv.  The input file is kept as the sequence of     *)
(* records csv.reader yields from it (delimiter "|", QUOTE_NONE: a record  *)
(* is the list of the pieces of a line between the bars, a blank line is   *)
(* the empty list), the output file as the sequence of records written.    *)
(***************************************************************************)
\* The field values records are drawn from: "A" a-breve, which lowercase and the
\* ascii map both rewrite, and a text holding a double quote.  Field 0 (the id) is
\* always "A".
FieldId == <<65>>
FieldTexts == { <<65, 259>>, <<34>> }

\* The records a line can hold: no field, or the id followed by up to three texts.
CsvRecords ==
    {<<>>} \cup { <<FieldId>> \o f : f \in BoundedStr(FieldTexts, 3) }

\* lines 257-262: the fields of the record after the character mapping
MapRecord(r, lc, m) ==
    IF Len(r) >= 3
    THEN [r EXCEPT ![2] = preprocess_romanian(r[2], lc, m),
                   ![3] = preprocess_romanian(r[3], lc, m)]
    ELSE IF Len(r) >= 2
    THEN [r EXCEPT ![2] = preprocess_romanian(r[2], lc, m)]
    ELSE r

\* line 254 and line 264: the writer is built with QUOTE_NONE and no escapechar, and
\* keeps the default quotechar '"'.  writerow raises csv.Error ("need to escape, but
\* no escapechar set") for a field that holds the delimiter "|", the quotechar '"',
\* or a character of the line terminator (CR, LF).
NeedsEscape(field) == Range(field) \cap {124, 34, 13, 10} # {}

Writable(r) == \A i \in 1..Len(r) : ~NeedsEscape(r[i])

InitCsv ==
    /\ in_rows \in BoundedStr(CsvRecords, MaxRows)
    /\ lowercase \in BOOLEAN
    /\ mode \in Modes
    /\ out_rows = <<>>
    /\ fin = "unopened"
    /\ fout = "unopened"
    /\ row = <<>>
    /\ idx = 0
    /\ processed_count = 0
    /\ exc = "none"
    /\ pc = "start"
    /\ IdleText
    /\ IdleVocab

csvFrame == <<text, lowercase, mode, result, calls, prev, vocabVars, in_rows>>

\* line 250: open(input_path, 'r')
OpenInput ==
    /\ pc = "start"
    /\ fin' = "open"
    /\ pc' = "input_open"
    /\ UNCHANGED <<csvFrame, out_rows, fout, row, idx, processed_count, exc>>

\* line 250: open(input_path) raises OSError; no handle exists yet
OpenInputFails ==
    /\ pc = "start"
    /\ exc' = "OSError"
    /\ pc' = "raised"
    /\ UNCHANGED <<csvFrame, out_rows, fin, fout, row, idx, processed_count>>

\* line 251: open(output_path, 'w') truncates the output file
OpenOutput ==
    /\ pc = "input_open"
    /\ fout' = "open"
    /\ out_rows' = <<>>
    /\ pc' = "loop"
    /\ UNCHANGED <<csvFrame, fin, row, idx, processed_count, exc>>

\* line 251: open(output_path) raises OSError; the with statement leaves through
\* the exit of the first item, which closes fin
OpenOutputFails ==
    /\ pc = "input_open"
    /\ exc' = "OSError"
    /\ pc' = "exit_input"
    /\ UNCHANGED <<csvFrame, out_rows, fin, fout, row, idx, processed_count>>

\* line 256: the reader yields the next record
ReadRow ==
    /\ pc = "loop"
    /\ idx < Len(in_rows)
    /\ row' = in_rows[idx + 1]
    /\ idx' = idx + 1
    /\ pc' = "have_row"
    /\ UNCHANGED <<csvFrame, out_rows, fin, fout, processed_count, exc>>

\* line 256: reading the next line raises (an I/O error, undecodable bytes)
ReadFails ==
    /\ pc = "loop"
    /\ idx < Len(in_rows)
    /\ exc' = "OSError"
    /\ pc' = "exit_output"
    /\ UNCHANGED <<csvFrame, out_rows, fin, fout, row, idx, processed_count>>

\* line 256: the reader is exhausted, the loop and the with body end
EndOfInput ==
    /\ pc = "loop"
    /\ idx = Len(in_rows)
    /\ pc' = "exit_output"
    /\ UNCHANGED <<csvFrame, out_rows, fin, fout, row, idx, processed_count, exc>>

\* lines 257-262
MapFields ==
    /\ pc = "have_row"
    /\ row' = MapRecord(row, lowercase, mode)
    /\ pc' = "mapped_row"
    /\ UNCHANGED <<csvFrame, out_rows, fin, fout, idx, processed_count, exc>>

\* lines 257-262: an exception arrives while the fields are mapped (MemoryError,
\* KeyboardInterrupt)
MapInterrupted ==
    /\ pc = "have_row"
    /\ exc' = "Interrupt"
    /\ pc' = "exit_output"
    /\ UNCHANGED <<csvFrame, out_rows, fin, fout, row, idx, processed_count>>

\* lines 264-265
WriteRow ==
    /\ pc = "mapped_row"
    /\ Writable(row)
    /\ out_rows' = Append(out_rows, row)
    /\ processed_count' = processed_count + 1
    /\ pc' = "loop"
    /\ UNCHANGED <<csvFrame, fin, fout, row, idx, exc>>

\* line 264: writerow raises csv.Error for a field it would have to escape
WriteRejected ==
    /\ pc = "mapped_row"
    /\ ~Writable(row)
    /\ exc' = "csv.Error"
    /\ pc' = "exit_output"
    /\ UNCHANGED <<csvFrame, out_rows, fin, fout, row, idx, processed_count>>

\* line 264: the write itself raises OSError
WriteFails ==
    /\ pc = "mapped_row"
    /\ exc' = "OSError"
    /\ pc' = "exit_output"
    /\ UNCHANGED <<csvFrame, out_rows, fin, fout, row, idx, processed_count>>

\* A with statement that has lost its exit on the exceptional path: the handle
\* stays as it is when an exception is in flight
ExitHandle_LeaksOnException(h) == IF exc = "none" THEN "closed" ELSE h

\* lines 250-251: the exit of a with item closes its handle, whether the body ended
\* normally or by an exception
ExitHandle(h) == "closed"

\* leaving the with statement, second item first: fout is closed
CloseOutput ==
    /\ pc = "exit_output"
    /\ fout' = ExitHandle(fout)
    /\ pc' = "exit_input"
    /\ UNCHANGED <<csvFrame, out_rows, fin, row, idx, processed_count, exc>>

\* closing fout raises (the flush fails); the handle is closed all the same and the
\* exit of the first item still runs
CloseOutputFails ==
    /\ pc = "exit_output"
    /\ fout' = ExitHandle(fout)
    /\ exc' = "OSError"
    /\ pc' = "exit_input"
    /\ UNCHANGED <<csvFrame, out_rows, fin, row, idx, processed_count>>

\* leaving the with statement: fin is closed; then line 267 returns, or the
\* exception in flight leaves the function
CloseInput ==
    /\ pc = "exit_input"
    /\ fin' = ExitHandle(fin)
    /\ pc' = IF exc = "none" THEN "returned" ELSE "raised"
    /\ UNCHANGED <<csvFrame, out_rows, fout, row, idx, processed_count, exc>>

NextCsv ==
    \/ OpenInput \/ OpenInputFails \/ OpenOutput \/ OpenOutputFails
    \/ ReadRow \/ ReadFails \/ EndOfInput
    \/ MapFields \/ MapInterrupted
    \/ WriteRow \/ WriteRejected \/ WriteFails
    \/ CloseOutput \/ CloseOutputFails \/ CloseInput

SpecCsv == InitCsv /\ [][NextCsv]_vars

(***************************************************************************)
(* Properties of preprocess_metadata_csv (checked under SpecCsv).          *)
(***************************************************************************)
Ended == pc \in {"returned", "raised"}

\* The output holds one record per input record, in input order, each with the
\* fields of its input record, of which only field 1, and field 2 of a record of
\* three fields or more, may differ.
FramePreserved ==
    /\ Len(out_rows) = Len(in_rows)
    /\ \A k \in 1..Len(in_rows) :
        /\ Len(out_rows[k]) = Len(in_rows[k])
        /\ \A j \in 1..Len(in_rows[k]) :
               (j = 2 \/ (j = 3 /\ Len(in_rows[k]) >= 3)) \/ out_rows[k][j] = in_rows[k][j]
        /\ Len(in_rows[k]) < 2 => out_rows[k] = in_rows[k]

\* C6: for every input record the call writes exactly one output record, in input
\* order, with the same number of fields, of which only field 1 (and field 2 of a
\* record of three fields or more) may differ.  Calls cut short by a failure of the
\* environment (an I/O error, an interrupt) are left aside.
C6_EveryRecordRewritten ==
    (Ended /\ exc \notin {"OSError", "Interrupt"}) => FramePreserved

\* C7: when the call has returned or raised, no file handle is open.
C7_NoHandleLeftOpen ==
    Ended => (fin # "open" /\ fout # "open")

\* C7 witness: the call has raised out of the loop, after a record was written, with
\* both handles opened and closed.
C7_Witness ==
    /\ pc = "raised"
    /\ processed_count >= 1
    /\ idx > processed_count
    /\ fin = "closed"
    /\ fout = "closed"

====
